---- MODULE Spec2Model ----
(***************************************************************************)
(* Task execution engine of social-automator: the HTTP handlers that turn  *)
(* an action request into a task row, a browser session, a driver run, a   *)
(* task_logs entry and a terminal task status.                             *)
(*                                                                         *)
(* Spec follows handler executions one after the other; OverlapSpec        *)
(* overlapping executions of a task handler and AddSpec overlapping        *)
(* add-account executions; LibSpec and SeqLibSpec the browser library      *)
(* under overlapping and under consecutive calls; ProxySpec the proxy      *)
(* mapping; CookieSpec the replay of stored cookies; LoopSpec the          *)
(* selector-discovery loop of the Twitter follow driver; VerifySpec the    *)
(* verification of a like; TripSpec the storing of a captured cookie jar   *)
(* and its parsing by parseCookies.                                        *)
(*                                                                         *)
(* One handler execution is a sequence of steps, one per await that        *)
(* touches shared state (the store, the browsers): Intake (session check,  *)
(* body validation, account lookup), InsertTask, handler-specific steps    *)
(* before the session, OpenSession (createStealthSetup), the platform      *)
(* driver, and then the writes, closes and the response that the code's    *)
(* try/catch/finally structure prescribes for the driver's outcome.  The   *)
(* driver's outcome depends on a third-party page and is therefore chosen  *)
(* nondeterministically among the outcomes the code distinguishes.         *)
(*                                                                         *)
(* Environment assumptions: supabase-js query builders resolve with an     *)
(* {data, error} pair and do not throw; writes whose error the code        *)
(* ignores (task_logs inserts, task status updates) succeed;               *)
(* Browser.close() does not throw, while the first close() of a context    *)
(* or page may.  The branches `if (!page)` after createStealthSetup are    *)
(* unreachable, because createStealthSetup returns the page it awaited or  *)
(* throws.                                                                 *)
(***************************************************************************)
EXTENDS Integers, Sequences, FiniteSets, TLC

\* Bounds of the model.
NumReq == 1          \* handler executions, followed one after the other
NumUsers == 2        \* dashboard users
MaxGlobalLaunch == 1 \* launches of the process-wide browser
NumCallers == 2      \* overlapping callers of the browser library
MaxLaunch == 2       \* browser launches by callers of the browser library
MaxCookieLen == 3    \* characters of a stored cookie string
MaxAttempts == 5     \* passes of the selector-discovery loop that are followed
MaxJar == 2          \* cookies in a captured cookie jar
MaxValueLen == 2     \* characters of a cookie value in a captured jar

Reqs == 1..NumReq
Users == 1..NumUsers
NoSession == 0

TaskHandlers ==
    {"tw_follow", "tw_like", "tw_comment", "tw_post", "fb_follow", "fb_like", "fb_post"}
AddAccountHandlers == {"tw_add", "fb_add"}
Handlers == TaskHandlers \cup AddAccountHandlers

\* The platform an endpoint drives.
Platform(h) == IF h \in {"fb_follow", "fb_like", "fb_post", "fb_add"} THEN "facebook" ELSE "twitter"

VARIABLES
    pc,              \* position of each handler execution
    handler,         \* the endpoint each execution serves
    session,         \* session.user.id of the request, NoSession when absent
    accountId,       \* accountId of the body (task handlers); email (add-account)
    variant,         \* action / scheduleType of the body
    task,            \* id of the task row this execution inserted, 0 if none
    context,         \* the handler's local `context`, 0 when null
    existing,        \* add-account: existingAccount found by email, 0 when null
    outcome,         \* what happened to the execution
    todo,            \* remaining writes, closes and response of the execution
    resp,            \* the response returned, "none" before it returns
    tasks,           \* table tasks
    task_logs,       \* table task_logs
    social_accounts, \* table social_accounts
    browsers,        \* every browser launched so far
    globalBrowser,   \* playwright-config's globalBrowser, 0 when null
    contexts,        \* every browsing context opened so far
    calls,           \* calls of playwright-config's exports by other callers
    account,         \* proxy resolution: the proxy fields of the account row
    proxyRoute,      \* proxy resolution: the handler that resolves
    proxyConfig,     \* proxy resolution: the handler's `proxyConfig`
    contextConfig,   \* proxy resolution: the `proxy` option given to newContext
    cookies,         \* session replay: the `cookies` argument
    stealth,         \* session replay: progress of createStealthSetup
    loop,            \* selector discovery: the locals of the retry loop
    verify,          \* like verification: the locals of the verification
    trip             \* session state: a cookie jar, stored and parsed back

vars == <<pc, handler, session, accountId, variant, task, context, existing,
          outcome, todo, resp, tasks, task_logs, social_accounts, browsers,
          globalBrowser, contexts, calls, account, proxyRoute, proxyConfig,
          contextConfig, cookies, stealth, loop, verify, trip>>

\* State of the handler executions.
reqs == <<pc, handler, session, accountId, variant, task, context, existing,
          outcome, todo, resp>>
\* State outside the handlers, their store and their browsers.
proxyVars == <<account, proxyRoute, proxyConfig, contextConfig>>
cookieVars == <<cookies, stealth>>
aux == <<calls, proxyVars, cookieVars, loop, verify, trip>>

locals == <<handler, session, accountId, variant, task, context, existing>>
store == <<tasks, task_logs, social_accounts>>
browserState == <<browsers, globalBrowser, contexts>>

----------------------------------------------------------------------------
\* The store: rows are identified by their position in the table.

AccountOf_AnyUser(a, u) ==
    IF a \in 1..Len(social_accounts) THEN a ELSE 0

\* .from('social_accounts').select('*').eq('id', a).eq('user_id', u).single()
AccountOf(a, u) ==
    IF a \in 1..Len(social_accounts) /\ social_accounts[a].user_id = u THEN a ELSE 0

\* .from('social_accounts').select('*').eq('email', e).eq('platform', p).single():
\* single() yields a row only when exactly one row matches.
AccountByEmail(e, p) ==
    LET m == {i \in 1..Len(social_accounts) :
                 social_accounts[i].email = e /\ social_accounts[i].platform = p}
    IN IF Cardinality(m) = 1 THEN CHOOSE i \in m : TRUE ELSE 0

LogsOf(t) == {i \in 1..Len(task_logs) : task_logs[i].task_id = t}
LogsWith(t, res) == {i \in LogsOf(t) : task_logs[i].result = res}

TaskStatus(t) == tasks[t].status

----------------------------------------------------------------------------
\* Responses, by status code and body.
Responses ==
    {"401 Unauthorized", "400 Missing required fields", "404 Account not found",
     "500 error", "200 success", "200 post created", "200 post scheduled",
     "200 already exists", "200 requiresMfa", "200 account added"}

\* The handler's promise rejects: no response is built by the handler.
Unhandled == "unhandled exception"

\* Responses that tell the caller the action was carried out.
SuccessResponses == {"200 success", "200 post created"}

\* The handler executions rs have not started.
NoExecutions(rs) ==
    /\ pc = [r \in rs |-> "idle"]
    /\ handler = [r \in rs |-> "none"]
    /\ session = [r \in rs |-> NoSession]
    /\ accountId = [r \in rs |-> 0]
    /\ variant = [r \in rs |-> "-"]
    /\ task = [r \in rs |-> 0]
    /\ context = [r \in rs |-> 0]
    /\ existing = [r \in rs |-> [id |-> 0, status |-> "-"]]
    /\ outcome = [r \in rs |-> "none"]
    /\ todo = [r \in rs |-> << >>]
    /\ resp = [r \in rs |-> "none"]

\* No task, no log entry, no browser.
NoTasks ==
    /\ tasks = << >>
    /\ task_logs = << >>
    /\ browsers = << >>
    /\ globalBrowser = 0
    /\ contexts = << >>

\* One stored account per user; account u belongs to user u.  `cookies` is
\* the execution that captured the stored jar, 0 for a jar stored earlier.
StoredAccounts ==
    [u \in Users |-> [user_id |-> u,
                      platform |-> IF u % 2 = 1 THEN "twitter" ELSE "facebook",
                      email |-> u,
                      status |-> "active",
                      cookies |-> 0]]

\* No handler has run: empty tables apart from the accounts, no browser.
NoRequests ==
    /\ NoExecutions(Reqs)
    /\ NoTasks
    /\ social_accounts = StoredAccounts

\* The parts of the state a specification does not exercise stay as they are.
NoCalls == calls = << >>
NoProxy == account = "-" /\ proxyRoute = "-" /\ proxyConfig = "-" /\ contextConfig = "-"
NoCookies == cookies = "-" /\ stealth = "-"
NoLoop == loop = "-"
NoVerify == verify = "-"
NoTrip == trip = "-"

Init == NoRequests /\ NoCalls /\ NoProxy /\ NoCookies /\ NoLoop /\ NoVerify /\ NoTrip

\* The values of `action` / `scheduleType` a body may carry, per endpoint.
Variants(h) ==
    CASE h = "tw_follow" -> {"follow", "unfollow"}
      [] h = "fb_follow" -> {"follow", "unfollow", "other"}
      [] h = "tw_comment" -> {"once", "repeating"}
      [] h = "fb_post" -> {"now", "later"}
      \* mfa_code of the Twitter add-account body: a secret, or none
      [] h = "tw_add" -> {"mfa", "no_mfa"}
      [] OTHER -> {"-"}

\* addAccountSchema: mfa_code is a required string that must not be empty.
SchemaAccepts(h, v) == ~(h = "tw_add" /\ v = "no_mfa")

\* The handler returns `response` at once: nothing is pending.
Return(r, what, response) ==
    /\ pc' = [pc EXCEPT ![r] = "done"]
    /\ outcome' = [outcome EXCEPT ![r] = what]
    /\ resp' = [resp EXCEPT ![r] = response]
    /\ UNCHANGED todo

\* The handler leaves its straight-line path: `path` is what its catch and
\* finally blocks, and its return statement, still do.
Exit(r, what, path) ==
    /\ pc' = [pc EXCEPT ![r] = "run"]
    /\ outcome' = [outcome EXCEPT ![r] = what]
    /\ todo' = [todo EXCEPT ![r] = path]
    /\ UNCHANGED resp

Goto(r, label) ==
    /\ pc' = [pc EXCEPT ![r] = label]
    /\ UNCHANGED <<outcome, todo, resp>>

\* The first step after a request was accepted: the task handlers insert the
\* task row before anything else, the add-account handlers open the session.
AfterIntake_SessionFirst(h) == "session"

AfterIntake(h) == IF h \in AddAccountHandlers THEN "session" ELSE "insert"

\* Session check, body validation and account lookup: the head of every POST.
\* pre = "invalid": the schema rejects the body (ZodError, caught by the outer
\* catch; create-post for Facebook answers 400 on missing fields instead).
\* pre = "media_fail": Facebook create-post stores the upload before the task
\* row exists, and writeFile throws.
\* Handler executions are followed one at a time, each on the store and the
\* browsers the earlier ones left behind; calls that overlap are the subject
\* of LibSpec.
\* Request is the head of POST of endpoint h for a request of session s
\* with accountId (or email) a and action v.
Request(r, h, s, pre, a, v) ==
    /\ pc[r] = "idle"
    /\ pre = "media_fail" => h = "fb_post"
    /\ handler' = [handler EXCEPT ![r] = h]
    /\ session' = [session EXCEPT ![r] = s]
    \* the body is read after the session check and its fields are
    \* bound only when the schema accepts it
    /\ LET parsed == s # NoSession /\ pre # "invalid" /\ SchemaAccepts(h, v)
       IN /\ accountId' = [accountId EXCEPT ![r] = IF parsed THEN a ELSE 0]
          /\ variant' = [variant EXCEPT ![r] = IF parsed THEN v ELSE "-"]
    /\ UNCHANGED <<task, context, existing, store, browserState>>
    /\ IF s = NoSession
         THEN Return(r, "unauth", "401 Unauthorized")
       ELSE IF pre = "invalid"
         THEN Return(r, "invalid",
                     IF h = "fb_post" THEN "400 Missing required fields"
                                      ELSE "500 error")
       ELSE IF ~SchemaAccepts(h, v)
         THEN Return(r, "schema_reject", "500 error")
       ELSE IF h \in AddAccountHandlers
         THEN Goto(r, AfterIntake(h))
       ELSE IF AccountOf(a, s) = 0
         THEN Return(r, "noaccount", "404 Account not found")
       ELSE IF pre = "media_fail"
         THEN Return(r, "premedia_fail", "500 error")
       ELSE Goto(r, AfterIntake(h))

Intake(r) ==
    /\ pc[r] = "idle"
    /\ \A q \in DOMAIN pc : q < r => pc[q] = "done"
    /\ \E h \in Handlers, s \in {NoSession} \cup Users,
          pre \in {"ok", "invalid", "media_fail"},
          a \in 1..(Len(social_accounts) + 1) :
        \E v \in Variants(h) : Request(r, h, s, pre, a, v)

\* schedule_type of the row a handler inserts.
ScheduleType(h, v) ==
    CASE h = "tw_comment" -> v
      [] h = "fb_post" -> IF v = "now" THEN "once" ELSE "scheduled"
      [] OTHER -> "once"

OnTaskError_Continue(r) ==
    /\ pc' = [pc EXCEPT ![r] = "session"]
    /\ outcome' = [outcome EXCEPT ![r] = "insert_fail"]
    /\ UNCHANGED <<todo, resp>>

\* if (taskError) return NextResponse.json({error: 'Failed to create task'}, 500)
OnTaskError(r) == Return(r, "insert_fail", "500 error")

\* supabase.from('tasks').insert([taskData]).select().single() and the check
\* of taskError.
InsertTask(r) ==
    /\ pc[r] = "insert"
    /\ UNCHANGED <<handler, session, accountId, variant, context, existing,
                   task_logs, social_accounts, browserState>>
    /\ \E ok \in BOOLEAN :
         IF ~ok
           THEN /\ OnTaskError(r)
                /\ UNCHANGED <<task, tasks>>
           ELSE /\ tasks' = Append(tasks,
                       [user_id |-> session[r],
                        social_account_id |-> accountId[r],
                        status |-> "active",
                        schedule_type |-> ScheduleType(handler[r], variant[r])])
                /\ task' = [task EXCEPT ![r] = Len(tasks) + 1]
                /\ CASE handler[r] = "tw_comment" /\ variant[r] # "once" ->
                          Exit(r, "scheduled", <<"200 success">>)
                     [] handler[r] = "tw_post" -> Goto(r, "media")
                     [] handler[r] = "fb_post" -> Goto(r, "fetch")
                     [] OTHER -> Goto(r, "session")

\* Twitter create-post: the uploads are written to the temp directory after
\* the task row was inserted; a throw lands in the outer catch.
TwPostMedia(r) ==
    /\ pc[r] = "media"
    /\ UNCHANGED <<locals, store, browserState>>
    /\ \E ok \in BOOLEAN :
         IF ok THEN Goto(r, "session")
               ELSE Exit(r, "media_fail", <<"500 error">>)

\* Facebook create-post: the second read of the account and the branch on
\* scheduleType.
FbPostFetch(r) ==
    /\ pc[r] = "fetch"
    /\ UNCHANGED <<locals, store, browserState>>
    /\ \E ok \in BOOLEAN :
         IF ~ok THEN Exit(r, "fetch_fail", <<"500 error">>)
         ELSE IF variant[r] = "now" THEN Goto(r, "session")
         ELSE Exit(r, "scheduled", <<"200 post scheduled">>)

----------------------------------------------------------------------------
\* Browser sessions.

\* createStealthSetup launches a browser of its own, opens a context in it,
\* replays the cookies (failures caught), installs the init scripts and opens
\* a page.  how = "launch_fail": chromium.launch throws; "context_fail":
\* browser.newContext throws (proxy refused); "page_fail": addInitScript or
\* newPage throws after the context exists; "ok": {context, page} returned.
createStealthSetup(r, how) ==
    LET b == Len(browsers) + 1
        c == Len(contexts) + 1
    IN /\ browsers' = IF how = "launch_fail" THEN browsers
                      ELSE Append(browsers, [kind |-> "private", by |-> r, open |-> TRUE,
                                            closeCalls |-> 0])
       /\ contexts' = IF how \in {"launch_fail", "context_fail"} THEN contexts
                      ELSE Append(contexts,
                              [by |-> r, browser |-> b, closeCalls |-> 0,
                               page |-> IF how = "ok" THEN "open" ELSE "none"])
       /\ context' = [context EXCEPT ![r] = IF how = "ok" THEN c ELSE 0]
       /\ UNCHANGED globalBrowser

SetupOutcomes == {"ok", "launch_fail", "context_fail", "page_fail"}

\* What a handler still does when createStealthSetup throws.  Only
\* executePost calls it inside a try block whose catch writes the failure;
\* everywhere else the throw goes straight to the outer catch.
SessionFailPath(h) ==
    CASE h \in {"tw_follow", "tw_post", "fb_add"} -> <<"500 error">>
      [] h \in {"tw_like", "tw_comment", "fb_follow", "fb_like", "tw_add"} ->
            <<"ctx_close", "500 error">>
      [] h = "fb_post" ->
            <<"log_failed", "status_failed", "page_close", "ctx_close", "cleanup",
              "log_failed", "200 post created">>

\* The await of createStealthSetup in a handler (in executePost for Facebook
\* create-post, after its own read of the account, which may fail).
OpenSession(r) ==
    /\ pc[r] = "session"
    /\ UNCHANGED <<handler, session, accountId, variant, task, existing, store>>
    /\ \E how \in SetupOutcomes \cup {"account_fail"} :
         /\ how = "account_fail" => handler[r] = "fb_post"
         /\ IF how = "account_fail"
              THEN /\ UNCHANGED <<context, browserState>>
                   /\ Exit(r, "throw", SessionFailPath(handler[r]))
              ELSE /\ createStealthSetup(r, how)
                   /\ IF how = "ok"
                        THEN Goto(r, IF handler[r] \in AddAccountHandlers
                                       THEN "check" ELSE "driver")
                        ELSE Exit(r, "session_fail", SessionFailPath(handler[r]))

\* initGlobalBrowser: launch the process-wide browser unless one is held.
initGlobalBrowser ==
    /\ globalBrowser = 0
    /\ Cardinality({b \in 1..Len(browsers) : browsers[b].kind = "global"})
         < MaxGlobalLaunch
    /\ browsers' = Append(browsers, [kind |-> "global", by |-> 0, open |-> TRUE,
                                      closeCalls |-> 0])
    /\ globalBrowser' = Len(browsers) + 1
    /\ UNCHANGED <<pc, locals, outcome, todo, resp, store, contexts>>

----------------------------------------------------------------------------
\* The drivers: what each handler does once the driver's outcome is known.

\* Twitter follow / unfollow.  The check of the button's state after the
\* click is commented out: "unconfirmed", a click that changed nothing, ends
\* like "ok".
TwFollowPath(act, out) ==
    CASE out = "already" -> <<"log_success", "ctx_close", "200 success">>
      [] out = "notfound" /\ act = "unfollow" ->
            <<"log_success", "status_completed", "ctx_close", "200 success">>
      [] out \in {"notfound", "throw"} ->
            <<"log_failed", "status_failed", "ctx_close", "500 error">>
      [] out \in {"ok", "unconfirmed"} ->
            <<"log_success", "status_completed", "ctx_close", "200 success">>

\* Twitter like.  "notfound": the wait for the like button times out;
\* "unverified": no signal confirmed the like.
TwLikePath(out) ==
    CASE out \in {"already", "ok"} ->
            <<"log_success", "status_completed", "ctx_close", "200 success">>
      [] out \in {"notfound", "unverified", "throw"} ->
            <<"log_failed", "status_failed", "ctx_close", "500 error">>

\* Twitter comment (scheduleType 'once').  After the click on the reply
\* button the driver waits and looks at nothing: "unconfirmed".
TwCommentPath(out) ==
    CASE out \in {"ok", "unconfirmed"} ->
            <<"log_success", "status_completed", "ctx_close", "200 success">>
      [] out = "throw" ->
            <<"log_failed", "status_failed", "ctx_close", "500 error">>

\* Twitter create-post.  "expired": the session could not be restored, the
\* account is marked session_expired and the driver throws.  "unconfirmed":
\* no toast and no success indicator, which the code lets pass.
TwPostPath(out) ==
    CASE out \in {"ok", "unconfirmed"} ->
            <<"log_success", "status_completed", "ctx_close", "200 success">>
      [] out = "expired" ->
            <<"acct_expired", "log_failed", "status_failed", "ctx_close", "500 error">>
      [] out = "throw" ->
            <<"log_failed", "status_failed", "ctx_close", "500 error">>

\* Facebook follow / unfollow.  The driver does not look at the current
\* follow state: "already" is a run on a page that is already followed.  Nor
\* does it look at the page after the reload: "unconfirmed".
FbFollowPath(out) ==
    CASE out \in {"ok", "already", "unconfirmed"} ->
            <<"log_success", "status_completed", "ctx_close", "200 success">>
      [] out = "throw" ->
            <<"log_failed", "status_failed", "ctx_close", "500 error">>

\* Facebook like.  "fail" and "unverified" are the explicit failure results
\* the handler writes down before it throws; "throw" is an error raised by
\* the page (navigation timeout, evaluate), which no catch writes down.
FbLikePath(out) ==
    CASE out \in {"already", "ok"} ->
            <<"log_success", "status_completed", "ctx_close", "200 success">>
      [] out \in {"fail", "unverified"} ->
            <<"log_failed", "status_failed", "ctx_close", "500 error">>
      [] out = "throw" -> <<"ctx_close", "500 error">>

\* Facebook create-post: executePost and the try/catch around its call.
executePost(out) ==
    CASE out = "ok" ->
            <<"log_success", "status_completed", "page_close", "ctx_close", "cleanup",
              "200 post created">>
      [] out \in {"unverified", "throw"} ->
            <<"log_failed", "status_failed", "page_close", "ctx_close", "cleanup",
              "log_failed", "200 post created">>

\* Twitter add-account, from the login steps on.
TwAddPath(out) ==
    CASE out = "mfa_required" -> <<"ctx_close", "ctx_close", "200 requiresMfa">>
      [] out \in {"logged_in", "pending"} ->
            <<"store_account", "ctx_close", "200 account added">>
      [] out = "throw" -> <<"ctx_close", "500 error">>

\* Facebook add-account, from the login steps on.
FbAddPath(out) ==
    CASE out = "ok" -> <<"store_account", "ctx_close", "200 account added">>
      [] out = "throw" -> <<"ctx_close", "500 error">>

DriverOutcomes(h, v) ==
    CASE h = "tw_follow" -> {"already", "notfound", "throw", "unconfirmed", "ok"}
      [] h = "tw_like" -> {"already", "notfound", "unverified", "throw", "ok"}
      [] h = "tw_comment" -> {"throw", "unconfirmed", "ok"}
      [] h = "tw_post" -> {"expired", "unconfirmed", "throw", "ok"}
      [] h = "fb_follow" -> {"throw", "unconfirmed", "ok"}
                               \cup (IF v = "follow" THEN {"already"} ELSE {})
      [] h = "fb_like" -> {"already", "fail", "unverified", "throw", "ok"}
      [] h = "fb_post" -> {"unverified", "throw", "ok"}
      \* the schema of Twitter add-account rejects a body without mfa_code,
      \* so the branch `!mfa_code` is taken by no validated request
      [] h = "tw_add" -> {"logged_in", "pending", "throw"}
                            \cup (IF v = "no_mfa" THEN {"mfa_required"} ELSE {})
      [] h = "fb_add" -> {"throw", "ok"}

DriverPath(h, v, out) ==
    CASE h = "tw_follow" -> TwFollowPath(v, out)
      [] h = "tw_like" -> TwLikePath(out)
      [] h = "tw_comment" -> TwCommentPath(out)
      [] h = "tw_post" -> TwPostPath(out)
      [] h = "fb_follow" -> FbFollowPath(out)
      [] h = "fb_like" -> FbLikePath(out)
      [] h = "fb_post" -> executePost(out)
      [] h = "tw_add" -> TwAddPath(out)
      [] h = "fb_add" -> FbAddPath(out)

\* Whether the driver clicked a button of the page before it ended in `out`.
\* Twitter follow returns on an already-followed profile before it looks for
\* the button; Facebook follow opens the "..." menu and clicks whatever the
\* page's state.
Clicked(h, out) ==
    CASE h = "tw_follow" -> out \in {"ok", "unconfirmed"}
      [] h = "fb_follow" -> out \in {"ok", "already", "unconfirmed"}
      [] OTHER -> out \in {"ok", "unconfirmed", "unverified"}

\* The platform driver runs in the opened page and ends in one of its outcomes.
Driver(r) ==
    /\ pc[r] = "driver"
    /\ UNCHANGED <<locals, store, browserState>>
    /\ \E out \in DriverOutcomes(handler[r], variant[r]) :
         Exit(r, out, DriverPath(handler[r], variant[r], out))

\* Add-account: the lookup of an existing row by email, made after the
\* session was opened.
ExistingCheck(r) ==
    /\ pc[r] = "check"
    /\ UNCHANGED <<handler, session, accountId, variant, task, context, store,
                   browserState>>
    /\ LET e == AccountByEmail(accountId[r], Platform(handler[r]))
           st == IF e = 0 THEN "-" ELSE social_accounts[e].status
       IN /\ existing' = [existing EXCEPT ![r] = [id |-> e, status |-> st]]
          /\ IF e = 0 THEN Goto(r, "driver")
             ELSE IF handler[r] = "fb_add"
               THEN Exit(r, "exists", <<"200 already exists">>)
             ELSE IF st = "active"
               THEN Exit(r, "exists", <<"ctx_close", "200 already exists">>)
             ELSE Goto(r, "driver")

----------------------------------------------------------------------------
\* The steps a handler's path is made of.

Next1(r) == [todo EXCEPT ![r] = Tail(todo[r])]

Running(r, tokens) == pc[r] = "run" /\ todo[r] # << >> /\ Head(todo[r]) \in tokens

InsertLog_Upsert(r) ==
    /\ Running(r, {"log_success", "log_failed"})
    /\ LET entry == [task_id |-> task[r],
                     result |-> IF Head(todo[r]) = "log_success" THEN "success"
                                ELSE "failed"]
       IN task_logs' = IF LogsOf(task[r]) = {} THEN Append(task_logs, entry)
                       ELSE [i \in 1..Len(task_logs) |->
                               IF i \in LogsOf(task[r]) THEN entry ELSE task_logs[i]]
    /\ todo' = Next1(r)
    /\ UNCHANGED <<pc, locals, outcome, resp, tasks, social_accounts, browserState>>

\* supabase.from('task_logs').insert([{task_id: task.id, result, ...}])
InsertLog(r) ==
    /\ Running(r, {"log_success", "log_failed"})
    /\ task_logs' = Append(task_logs,
          [task_id |-> task[r],
           result |-> IF Head(todo[r]) = "log_success" THEN "success" ELSE "failed"])
    /\ todo' = Next1(r)
    /\ UNCHANGED <<pc, locals, outcome, resp, tasks, social_accounts, browserState>>

\* supabase.from('tasks').update({status}).eq('id', task.id)
UpdateStatus_ByAccount(r) ==
    /\ Running(r, {"status_completed", "status_failed"})
    /\ tasks' = [t \in 1..Len(tasks) |->
                    IF tasks[t].social_account_id = accountId[r]
                      THEN [tasks[t] EXCEPT !.status =
                              IF Head(todo[r]) = "status_completed"
                                THEN "completed" ELSE "failed"]
                      ELSE tasks[t]]
    /\ todo' = Next1(r)
    /\ UNCHANGED <<pc, locals, outcome, resp, task_logs, social_accounts, browserState>>

UpdateStatus(r) ==
    /\ Running(r, {"status_completed", "status_failed"})
    /\ tasks' = [tasks EXCEPT ![task[r]].status =
                    IF Head(todo[r]) = "status_completed" THEN "completed" ELSE "failed"]
    /\ todo' = Next1(r)
    /\ UNCHANGED <<pc, locals, outcome, resp, task_logs, social_accounts, browserState>>

\* Twitter create-post: update({status: 'session_expired'}).eq('id', accountId)
MarkExpired(r) ==
    /\ Running(r, {"acct_expired"})
    /\ social_accounts' =
          [social_accounts EXCEPT ![accountId[r]].status = "session_expired"]
    /\ todo' = Next1(r)
    /\ UNCHANGED <<pc, locals, outcome, resp, tasks, task_logs, browserState>>

\* Where an error thrown by close() goes.  executePost's finally sits in the
\* try of POST, whose catch logs and lets the request succeed.  The close()
\* before a return inside the try is followed by the one of the finally.
\* In Twitter follow, Twitter create-post and Facebook add-account the
\* finally belongs to the inner try and the outer catch answers 500; in the
\* other handlers it belongs to the outer try and nothing catches.
OnCloseThrow_Recorded(h, rest) == <<"log_failed", "status_failed", "500 error">>

OnCloseThrow(h, rest) ==
    IF h = "fb_post" THEN <<"log_failed", "200 post created">>
    ELSE IF rest # << >> /\ Head(rest) = "ctx_close" THEN <<"ctx_close", "500 error">>
    ELSE IF h \in {"tw_follow", "tw_post", "fb_add"} THEN <<"500 error">>
    ELSE <<Unhandled>>

\* if (page) await page.close()
ClosePage(r) ==
    /\ Running(r, {"page_close"})
    /\ UNCHANGED <<pc, locals, outcome, resp, store, browsers, globalBrowser>>
    /\ IF context[r] = 0
         THEN UNCHANGED contexts /\ todo' = Next1(r)
         ELSE \E ok \in BOOLEAN :
                IF ok
                  THEN /\ contexts' = [contexts EXCEPT ![context[r]].page = "closed"]
                       /\ todo' = Next1(r)
                  ELSE /\ UNCHANGED contexts
                       /\ todo' = [todo EXCEPT ![r] =
                                      OnCloseThrow(handler[r], Tail(todo[r]))]

\* if (context) await context.close(); a second close() of a context returns
\* at once.
CloseContext(r) ==
    /\ Running(r, {"ctx_close"})
    /\ UNCHANGED <<pc, locals, outcome, resp, store, browsers, globalBrowser>>
    /\ IF context[r] = 0
         THEN UNCHANGED contexts /\ todo' = Next1(r)
         ELSE \E ok \in BOOLEAN :
                /\ ~ok => contexts[context[r]].closeCalls = 0
                /\ IF ok
                     THEN /\ contexts' =
                               [contexts EXCEPT ![context[r]].closeCalls = @ + 1,
                                                ![context[r]].page = "closed"]
                          /\ todo' = Next1(r)
                     ELSE /\ contexts' =
                               [contexts EXCEPT ![context[r]].closeCalls = @ + 1]
                          /\ todo' = [todo EXCEPT ![r] =
                                         OnCloseThrow(handler[r], Tail(todo[r]))]

\* cleanup(): close the process-wide browser and clear the reference.
cleanup(r) ==
    /\ Running(r, {"cleanup"})
    /\ IF globalBrowser = 0
         THEN UNCHANGED <<browsers, globalBrowser>>
         ELSE /\ browsers' = [browsers EXCEPT ![globalBrowser].open = FALSE,
                                             ![globalBrowser].closeCalls = @ + 1]
              /\ globalBrowser' = 0
    /\ todo' = Next1(r)
    /\ UNCHANGED <<pc, locals, outcome, resp, store, contexts>>

StoredStatus_Active(h, out) == "active"

\* status: loggedIn ? "active" : "pending" (Twitter); status: "active"
\* (Facebook)
StoredStatus(h, out) ==
    IF h = "tw_add" /\ out = "pending" THEN "pending" ELSE "active"

\* Add-account: the row is written after the login steps.  Twitter updates
\* the row found earlier when that row was 'pending' and inserts otherwise;
\* Facebook always inserts.  A write error is thrown on to the outer catch.
StoreAccount(r) ==
    /\ Running(r, {"store_account"})
    /\ UNCHANGED <<pc, locals, resp, tasks, task_logs, browserState>>
    /\ \E ok \in BOOLEAN :
         IF ~ok
           THEN /\ todo' = [todo EXCEPT ![r] = <<"ctx_close", "500 error">>]
                /\ outcome' = [outcome EXCEPT ![r] = "store_fail"]
                /\ UNCHANGED social_accounts
           ELSE /\ todo' = Next1(r)
                /\ UNCHANGED outcome
                /\ LET st == StoredStatus(handler[r], outcome[r])
                   IN IF handler[r] = "tw_add" /\ existing[r].id # 0
                            /\ existing[r].status = "pending"
                        THEN social_accounts' =
                               [social_accounts EXCEPT ![existing[r].id].status = st,
                                                       ![existing[r].id].cookies = r]
                        ELSE social_accounts' = Append(social_accounts,
                               [user_id |-> session[r],
                                platform |-> Platform(handler[r]),
                                email |-> accountId[r],
                                status |-> st,
                                cookies |-> r])

\* return NextResponse.json(...)
Respond(r) ==
    /\ Running(r, Responses \cup {Unhandled})
    /\ resp' = [resp EXCEPT ![r] = Head(todo[r])]
    /\ pc' = [pc EXCEPT ![r] = "done"]
    /\ todo' = Next1(r)
    /\ UNCHANGED <<locals, outcome, store, browserState>>

Next ==
    \/ \E r \in Reqs : Intake(r) /\ UNCHANGED aux
    \/ \E r \in Reqs : InsertTask(r) /\ UNCHANGED aux
    \/ \E r \in Reqs : TwPostMedia(r) /\ UNCHANGED aux
    \/ \E r \in Reqs : FbPostFetch(r) /\ UNCHANGED aux
    \/ \E r \in Reqs : OpenSession(r) /\ UNCHANGED aux
    \/ \E r \in Reqs : ExistingCheck(r) /\ UNCHANGED aux
    \/ \E r \in Reqs : Driver(r) /\ UNCHANGED aux
    \/ \E r \in Reqs : InsertLog(r) /\ UNCHANGED aux
    \/ \E r \in Reqs : UpdateStatus(r) /\ UNCHANGED aux
    \/ \E r \in Reqs : MarkExpired(r) /\ UNCHANGED aux
    \/ \E r \in Reqs : ClosePage(r) /\ UNCHANGED aux
    \/ \E r \in Reqs : CloseContext(r) /\ UNCHANGED aux
    \/ \E r \in Reqs : cleanup(r) /\ UNCHANGED aux
    \/ \E r \in Reqs : StoreAccount(r) /\ UNCHANGED aux
    \/ \E r \in Reqs : Respond(r) /\ UNCHANGED aux
    \/ initGlobalBrowser /\ UNCHANGED aux

Spec == Init /\ [][Next]_vars

TypeOK ==
    /\ \A r \in DOMAIN pc : pc[r] \in {"idle", "insert", "media", "fetch", "session",
                                  "check", "driver", "run", "done"}
    /\ \A r \in DOMAIN pc : resp[r] \in Responses \cup {"none", Unhandled}
    /\ \A t \in 1..Len(tasks) : tasks[t].status \in {"active", "completed", "failed"}
    /\ \A i \in 1..Len(task_logs) : task_logs[i].result \in {"success", "failed"}
    /\ globalBrowser \in 0..Len(browsers)

----------------------------------------------------------------------------
\* Handler executions that overlap: requests to the Twitter like endpoint,
\* among them repeated requests of one user for one account, whose steps
\* interleave at every await.

NumOverlap == 2   \* executions in flight at the same time

OverlapInit ==
    /\ NoExecutions(1..NumOverlap)
    /\ NoTasks
    /\ social_accounts = StoredAccounts
    /\ NoCalls /\ NoProxy /\ NoCookies /\ NoLoop /\ NoVerify /\ NoTrip

\* The first user asks for a like by one of the accounts, theirs or not; the
\* request is well-formed.  Requests for the same account are resubmissions.
\* Executions are numbered in the order their requests arrive.
Submit(r) ==
    /\ pc[r] = "idle"
    /\ \A q \in DOMAIN pc : q < r => pc[q] # "idle"
    /\ \E a \in 1..Len(social_accounts) :
          Request(r, "tw_like", CHOOSE u \in Users : \A w \in Users : u <= w,
                  "ok", a, "-")

OverlapNext ==
    \/ \E r \in DOMAIN pc : Submit(r) /\ UNCHANGED aux
    \/ \E r \in DOMAIN pc : InsertTask(r) /\ UNCHANGED aux
    \/ \E r \in DOMAIN pc : OpenSession(r) /\ UNCHANGED aux
    \* the driver likes the tweet, or a wait of it times out
    \/ \E r \in DOMAIN pc :
          Driver(r) /\ outcome'[r] \in {"ok", "throw"} /\ UNCHANGED aux
    \/ \E r \in DOMAIN pc : InsertLog(r) /\ UNCHANGED aux
    \/ \E r \in DOMAIN pc : UpdateStatus(r) /\ UNCHANGED aux
    \/ \E r \in DOMAIN pc : CloseContext(r) /\ UNCHANGED aux
    \/ \E r \in DOMAIN pc : Respond(r) /\ UNCHANGED aux

OverlapSpec == OverlapInit /\ [][OverlapNext]_vars

----------------------------------------------------------------------------
\* Add-account requests that overlap: users ask the two add-account
\* endpoints to add the same account, one nobody has stored yet; the steps
\* of their executions interleave at every await.

NewEmail == Len(StoredAccounts) + 1

AddInit ==
    /\ NoExecutions(1..NumOverlap)
    /\ NoTasks
    /\ social_accounts = StoredAccounts
    /\ NoCalls /\ NoProxy /\ NoCookies /\ NoLoop /\ NoVerify /\ NoTrip

\* A well-formed request, with the secret for the one-time code.  The
\* requests come from different users, in the order they are numbered.
SubmitAdd(r) ==
    /\ pc[r] = "idle"
    /\ \A q \in DOMAIN pc : q < r => pc[q] # "idle"
    /\ \E h \in AddAccountHandlers :
          Request(r, h, ((r - 1) % NumUsers) + 1, "ok", NewEmail,
                  IF h = "tw_add" THEN "mfa" ELSE "-")

AddNext ==
    \/ \E r \in DOMAIN pc : SubmitAdd(r) /\ UNCHANGED aux
    \/ \E r \in DOMAIN pc : OpenSession(r) /\ UNCHANGED aux
    \/ \E r \in DOMAIN pc : ExistingCheck(r) /\ UNCHANGED aux
    \/ \E r \in DOMAIN pc : Driver(r) /\ UNCHANGED aux
    \/ \E r \in DOMAIN pc : StoreAccount(r) /\ UNCHANGED aux
    \/ \E r \in DOMAIN pc : CloseContext(r) /\ UNCHANGED aux
    \/ \E r \in DOMAIN pc : Respond(r) /\ UNCHANGED aux

AddSpec == AddInit /\ [][AddNext]_vars

----------------------------------------------------------------------------
\* The browser library on its own: callers of initGlobalBrowser,
\* createStealthContext and cleanup.  A call is a sequence of steps, one per
\* await; calls of different callers interleave at the awaits.

Callers == 1..NumCallers

NoCall == [op |-> "none", pc |-> "idle", browser |-> 0, value |-> "none"]

\* The caller is between two calls.
Resting(k) == calls[k].pc \in {"idle", "returned"}

\* Launches and contexts requested so far, those in flight included.
Requested ==
    Len(browsers) + Len(contexts)
      + Cardinality({k \in DOMAIN calls :
                       calls[k].pc \in {"launching", "newContext"}})

\* After `await initGlobalBrowser()`: the function's caller has the browser;
\* createStealthContext goes on to open a context in it.
GotBrowser(op, b) ==
    [op |-> op, pc |-> IF op = "createStealthContext" THEN "newContext" ELSE "returned",
     browser |-> b, value |-> IF op = "createStealthContext" THEN "none" ELSE "browser"]

\* if (!globalBrowser) { ... await chromium.launch(...) } return globalBrowser:
\* the test, and the start of the launch when no browser is held.
initGlobalBrowser_check(k, op) ==
    /\ Resting(k)
    /\ IF globalBrowser # 0
         THEN /\ op = "createStealthContext" => Requested < MaxLaunch
              /\ calls' = [calls EXCEPT ![k] = GotBrowser(op, globalBrowser)]
         ELSE /\ Requested < MaxLaunch
              /\ calls' = [calls EXCEPT ![k] =
                    [op |-> op, pc |-> "launching", browser |-> 0, value |-> "none"]]
    /\ UNCHANGED <<browsers, globalBrowser, contexts>>

\* globalBrowser = await chromium.launch(BROWSER_CONFIG): the launch resolves
\* and the reference is assigned, or the launch throws.
initGlobalBrowser_launched(k) ==
    /\ calls[k].pc = "launching"
    /\ UNCHANGED contexts
    /\ \E ok \in BOOLEAN :
         IF ok
           THEN /\ browsers' = Append(browsers,
                       [kind |-> "global", by |-> 0, open |-> TRUE, closeCalls |-> 0])
                /\ globalBrowser' = Len(browsers) + 1
                /\ calls' = [calls EXCEPT ![k] = GotBrowser(calls[k].op, Len(browsers) + 1)]
           ELSE /\ calls' = [calls EXCEPT ![k].pc = "returned", ![k].value = "threw"]
                /\ UNCHANGED <<browsers, globalBrowser>>

\* createStealthContext: browser.newContext(contextConfig) on the browser
\* that initGlobalBrowser returned; it throws when that browser was closed.
newContext(k) ==
    /\ calls[k].pc = "newContext"
    /\ UNCHANGED <<browsers, globalBrowser>>
    /\ IF browsers[calls[k].browser].open
         THEN /\ contexts' = Append(contexts,
                     [by |-> 0, browser |-> calls[k].browser, closeCalls |-> 0,
                      page |-> "none"])
              /\ calls' = [calls EXCEPT ![k].pc = "returned", ![k].value = "context"]
         ELSE /\ calls' = [calls EXCEPT ![k].pc = "returned", ![k].value = "threw"]
              /\ UNCHANGED contexts

cleanup_check_NoClear(k) ==
    /\ Resting(k)
    /\ UNCHANGED <<globalBrowser, contexts>>
    /\ IF globalBrowser = 0
         THEN /\ calls' = [calls EXCEPT ![k] =
                    [op |-> "cleanup", pc |-> "returned", browser |-> 0, value |-> "void"]]
              /\ UNCHANGED browsers
         ELSE /\ browsers' = [browsers EXCEPT ![globalBrowser].open = FALSE,
                                             ![globalBrowser].closeCalls = @ + 1]
              /\ calls' = [calls EXCEPT ![k] =
                    [op |-> "cleanup", pc |-> "returned", browser |-> globalBrowser,
                     value |-> "void"]]

\* cleanup: if (globalBrowser) { await globalBrowser.close(); ... }: the test
\* and the call of close(), which the function then awaits.
cleanup_check(k) ==
    /\ Resting(k)
    /\ UNCHANGED <<globalBrowser, contexts>>
    /\ IF globalBrowser = 0
         THEN /\ calls' = [calls EXCEPT ![k] =
                    [op |-> "cleanup", pc |-> "returned", browser |-> 0, value |-> "void"]]
              /\ UNCHANGED browsers
         ELSE /\ browsers' = [browsers EXCEPT ![globalBrowser].open = FALSE,
                                             ![globalBrowser].closeCalls = @ + 1]
              /\ calls' = [calls EXCEPT ![k] =
                    [op |-> "cleanup", pc |-> "closing", browser |-> globalBrowser,
                     value |-> "none"]]

\* cleanup: globalBrowser = null, after close() resolved.
cleanup_closed(k) ==
    /\ calls[k].pc = "closing"
    /\ globalBrowser' = 0
    /\ calls' = [calls EXCEPT ![k].pc = "returned", ![k].value = "void"]
    /\ UNCHANGED <<browsers, contexts>>

LibInit ==
    /\ NoRequests /\ NoProxy /\ NoCookies /\ NoLoop /\ NoVerify /\ NoTrip
    /\ calls = [k \in Callers |-> NoCall]

\* What the browser library leaves alone.
notLib == <<reqs, store, proxyVars, cookieVars, loop, verify, trip>>

LibNext ==
    \/ \E k \in Callers, op \in {"initGlobalBrowser", "createStealthContext"} :
          initGlobalBrowser_check(k, op) /\ UNCHANGED notLib
    \/ \E k \in Callers : initGlobalBrowser_launched(k) /\ UNCHANGED notLib
    \/ \E k \in Callers : newContext(k) /\ UNCHANGED notLib
    \/ \E k \in Callers : cleanup_check(k) /\ UNCHANGED notLib
    \/ \E k \in Callers : cleanup_closed(k) /\ UNCHANGED notLib

\* Callers of the library whose calls overlap.
LibSpec == LibInit /\ [][LibNext]_vars

\* No call of another caller is in flight.
Alone(k) == \A j \in Callers \ {k} : Resting(j)

SeqLibNext ==
    \/ \E k \in Callers, op \in {"initGlobalBrowser", "createStealthContext"} :
          Alone(k) /\ initGlobalBrowser_check(k, op) /\ UNCHANGED notLib
    \/ \E k \in Callers :
          Alone(k) /\ initGlobalBrowser_launched(k) /\ UNCHANGED notLib
    \/ \E k \in Callers : Alone(k) /\ newContext(k) /\ UNCHANGED notLib
    \/ \E k \in Callers : Alone(k) /\ cleanup_check(k) /\ UNCHANGED notLib
    \/ \E k \in Callers : Alone(k) /\ cleanup_closed(k) /\ UNCHANGED notLib

\* Callers of the library that await each call before the next one is made.
SeqLibSpec == LibInit /\ [][SeqLibNext]_vars

----------------------------------------------------------------------------
\* Proxy resolution: the handlers' `proxyConfig` expression and the `proxy`
\* option createStealthSetup derives from it.  JavaScript values are records
\* [t, v]: t the type and v the text the value prints as.

Null == [t |-> "null", v |-> "null"]
Undefined == [t |-> "undefined", v |-> "undefined"]
Unset == [t |-> "unset", v |-> ""]
TypeError == [t |-> "TypeError", v |-> ""]
Str(x) == [t |-> "string", v |-> x]
Num(x) == [t |-> "number", v |-> x]

\* ToBoolean.
Truthy(x) ==
    /\ x.t \in {"string", "number", "object"}
    /\ ~(x.t = "string" /\ x.v = "")
    /\ ~(x.t = "number" /\ x.v = "0")

\* a || b
Or(a, b) == IF Truthy(a) THEN a ELSE b

\* x.toString(): a TypeError on null and undefined.
toString(x) == IF x.t \in {"null", "undefined"} THEN TypeError ELSE Str(x.v)

\* The handlers that pass account.proxy_port.toString() as the port; the
\* Twitter handlers pass the stored value.
StringPort(h) == Platform(h) = "facebook"

\* The object literal of the conditional expression.
Descriptor(h, a) ==
    LET port == IF StringPort(h) THEN toString(a.proxy_port) ELSE a.proxy_port
    IN IF port = TypeError THEN TypeError
       ELSE [t |-> "object",
             type |-> Str("http"),
             server |-> a.proxy_ip,
             port |-> port,
             username |-> Or(a.proxy_username, Str("")),
             password |-> Or(a.proxy_password, Str(""))]

ResolveProxy_IpOnly(h, a) ==
    IF Truthy(a.proxy_ip) THEN Descriptor(h, a) ELSE Undefined

\* const proxyConfig = account.proxy_ip && account.proxy_port ? {...} : undefined
ResolveProxy(h, a) ==
    IF Truthy(a.proxy_ip) /\ Truthy(a.proxy_port) THEN Descriptor(h, a) ELSE Undefined

proxyServer_NoScheme(c) == c.server.v \o ":" \o c.port.v

\* proxyConfig.type ? `${type}://${server}:${port}` : `http://${server}:${port}`
proxyServer(c) ==
    IF Truthy(c.type) THEN c.type.v \o "://" \o c.server.v \o ":" \o c.port.v
    ELSE "http://" \o c.server.v \o ":" \o c.port.v

\* The proxy fields an account row may hold.
ProxyAccounts ==
    [proxy_type : {Null, Str("socks5")},
     proxy_ip : {Null, Str(""), Str("10.0.0.5")},
     proxy_port : {Null, Num("0"), Num("8080"), Str(""), Str("8080")},
     proxy_username : {Null, Str(""), Str("u")},
     proxy_password : {Null, Str(""), Str("p")}]

ProxyInit ==
    /\ NoRequests /\ NoCalls /\ NoCookies /\ NoLoop /\ NoVerify /\ NoTrip
    /\ account \in ProxyAccounts
    /\ proxyRoute \in TaskHandlers
    /\ proxyConfig = Unset
    /\ contextConfig = Unset

\* The handler evaluates its proxyConfig expression.
Resolve ==
    /\ proxyConfig = Unset
    /\ proxyConfig' = ResolveProxy(proxyRoute, account)
    /\ UNCHANGED <<account, proxyRoute, contextConfig>>

\* createStealthSetup: ...(proxyConfig && { proxy: { server, username, password } })
Attach ==
    /\ proxyConfig.t \in {"undefined", "object"}
    /\ contextConfig = Unset
    /\ contextConfig' =
          IF Truthy(proxyConfig)
            THEN [t |-> "object",
                  server |-> Str(proxyServer(proxyConfig)),
                  username |-> proxyConfig.username,
                  password |-> proxyConfig.password]
            ELSE Undefined
    /\ UNCHANGED <<account, proxyRoute, proxyConfig>>

\* What proxy resolution leaves alone.
notProxy == <<reqs, store, browserState, calls, cookieVars, loop, verify, trip>>

ProxyNext ==
    \/ Resolve /\ UNCHANGED notProxy
    \/ Attach /\ UNCHANGED notProxy

ProxySpec == ProxyInit /\ [][ProxyNext]_vars

----------------------------------------------------------------------------
\* Session replay: what createStealthSetup does with its `cookies` argument
\* once the context exists.  A cookie string is a sequence of characters; a
\* string that JSON.parse accepts is given by the value it parses to.

CookieChars == {"a", "=", ";", " "}

TextBlobs == UNION {[1..n -> CookieChars] : n \in 0..MaxCookieLen}

\* A cookie as addCookies receives it; hasValue is false when `value` is
\* undefined.
Cookie(n, v) == [name |-> n, value |-> v, hasValue |-> TRUE]
CookieNoValue(n) == [name |-> n, value |-> << >>, hasValue |-> FALSE]

\* What JSON.parse may return for a stored blob: an array of cookies, an
\* array with an entry that lacks its value, or something that is no array.
JsonValues ==
    {[array |-> TRUE, items |-> <<Cookie(<<"a">>, <<"a", "=">>)>>],
     [array |-> TRUE, items |-> <<Cookie(<<"a">>, <<"a">>), CookieNoValue(<<"a">>)>>],
     [array |-> TRUE, items |-> << >>],
     [array |-> FALSE, items |-> << >>]}

CookieBlobs ==
    {[kind |-> "undefined", text |-> << >>, json |-> [array |-> FALSE, items |-> << >>]]}
    \cup {[kind |-> "text", text |-> t, json |-> [array |-> FALSE, items |-> << >>]] :
             t \in TextBlobs}
    \cup {[kind |-> "json", text |-> << >>, json |-> j] : j \in JsonValues}

\* String.prototype.split for a one-character separator.
RECURSIVE split(_, _)
split(str, sep) ==
    IF str = << >> THEN << << >> >>
    ELSE LET rest == split(Tail(str), sep)
         IN IF Head(str) = sep THEN << << >> >> \o rest
            ELSE << <<Head(str)>> \o Head(rest) >> \o Tail(rest)

\* String.prototype.trim.
RECURSIVE trim(_)
trim(str) ==
    IF str = << >> THEN str
    ELSE IF Head(str) = " " THEN trim(Tail(str))
    ELSE IF str[Len(str)] = " " THEN trim(SubSeq(str, 1, Len(str) - 1))
    ELSE str

\* const [name, value] = cookie.trim().split('=')
PairOf(piece) ==
    LET parts == split(trim(piece), "=")
    IN IF Len(parts) >= 2 THEN Cookie(parts[1], parts[2]) ELSE CookieNoValue(parts[1])

\* parseCookies: JSON.parse, and for what is no JSON the cookie-string form.
parseCookies(blob) ==
    IF blob.kind = "json" THEN blob.json
    ELSE LET pieces == split(blob.text, ";")
         IN [array |-> TRUE, items |-> [i \in 1..Len(pieces) |-> PairOf(pieces[i])]]

\* context.addCookies validates its whole argument before any cookie is set:
\* it rejects what is no array, and an entry without a string value.
Rejected(parsed) ==
    \/ ~parsed.array
    \/ \E i \in 1..Len(parsed.items) : ~parsed.items[i].hasValue
    \/ \E i \in 1..Len(parsed.items) :
          parsed.items[i].name = << >> /\ parsed.items[i].value = << >>

\* The browser may refuse a cookie without a name.
Doubtful(parsed) ==
    parsed.array /\ \E i \in 1..Len(parsed.items) : parsed.items[i].name = << >>

NotStarted ==
    [pc |-> "cookies", parsedCookies |-> [array |-> FALSE, items |-> << >>],
     jar |-> << >>, caught |-> FALSE, script |-> FALSE, failedAt |-> "-"]

CookieInit ==
    /\ NoRequests /\ NoCalls /\ NoProxy /\ NoLoop /\ NoVerify /\ NoTrip
    /\ cookies \in CookieBlobs
    /\ stealth = NotStarted

OnCookieError_Abort(parsed) ==
    [stealth EXCEPT !.pc = "threw", !.parsedCookies = parsed, !.failedAt = "addCookies"]

\* catch (error) { console.error('Error parsing cookies:', error) }
OnCookieError(parsed) ==
    [stealth EXCEPT !.pc = "script", !.parsedCookies = parsed, !.caught = TRUE]

\* if (cookies) { try { parsedCookies = parseCookies(cookies);
\*                       await context.addCookies(parsedCookies) } catch ... }
ReplayCookies ==
    /\ stealth.pc = "cookies"
    /\ UNCHANGED cookies
    /\ IF cookies.kind = "undefined" \/ (cookies.kind = "text" /\ cookies.text = << >>)
         THEN stealth' = [stealth EXCEPT !.pc = "script"]
         ELSE LET parsed == parseCookies(cookies)
              IN \E ok \in BOOLEAN :
                   /\ ok => ~Rejected(parsed)
                   /\ ~ok => Rejected(parsed) \/ Doubtful(parsed)
                   /\ stealth' =
                        IF ok THEN [stealth EXCEPT !.pc = "script",
                                                   !.parsedCookies = parsed,
                                                   !.jar = parsed.items]
                        ELSE OnCookieError(parsed)

\* await context.addInitScript(STEALTH_SCRIPTS.context)
InstallScript ==
    /\ stealth.pc = "script"
    /\ UNCHANGED cookies
    /\ \E ok \in BOOLEAN :
         stealth' = IF ok THEN [stealth EXCEPT !.pc = "page", !.script = TRUE]
                    ELSE [stealth EXCEPT !.pc = "threw", !.failedAt = "addInitScript"]

\* const page = await context.newPage(); await page.addInitScript(...);
\* return { context, page }
NewPage ==
    /\ stealth.pc = "page"
    /\ UNCHANGED cookies
    /\ \E ok \in BOOLEAN :
         stealth' = IF ok THEN [stealth EXCEPT !.pc = "returned"]
                    ELSE [stealth EXCEPT !.pc = "threw", !.failedAt = "newPage"]

\* What session replay leaves alone.
notCookies == <<reqs, store, browserState, calls, proxyVars, loop, verify, trip>>

CookieNext ==
    \/ ReplayCookies /\ UNCHANGED notCookies
    \/ InstallScript /\ UNCHANGED notCookies
    \/ NewPage /\ UNCHANGED notCookies

CookieSpec == CookieInit /\ [][CookieNext]_vars

----------------------------------------------------------------------------
\* Selector discovery of the Twitter follow / unfollow driver: the loop
\* `while (retryCount < maxRetries && !actionButton)`.

maxRetries == 3
NumSelectors == 4   \* buttonSelectors.length

LoopStart(act) ==
    [action |-> act, pc |-> "while", retryCount |-> 0, actionButton |-> FALSE,
     selector |-> 0, attempts |-> 0]

LoopInit ==
    /\ NoRequests /\ NoCalls /\ NoProxy /\ NoCookies /\ NoVerify /\ NoTrip
    /\ \E act \in {"follow", "unfollow"} : loop = LoopStart(act)

\* The loop condition; `attempts` counts the passes through the body.
While ==
    /\ loop.pc = "while"
    /\ IF loop.retryCount < maxRetries /\ ~loop.actionButton
         THEN /\ loop.attempts < MaxAttempts
              /\ loop' = [loop EXCEPT !.pc = "wait", !.attempts = @ + 1]
         ELSE loop' = [loop EXCEPT !.pc = "exit"]

\* await Promise.race(buttonSelectors.map(s => page.waitForSelector(s, ...))):
\* one of the selectors shows up, or the first timeout rejects the race.
WaitForSelector ==
    /\ loop.pc = "wait"
    /\ \E ok \in BOOLEAN :
         loop' = IF ok THEN [loop EXCEPT !.pc = "for", !.selector = 1]
                 ELSE [loop EXCEPT !.pc = "catch"]

\* for (const selector of buttonSelectors): the button of the selector is
\* visible (actionButton is set and the loops are left), or it is not and
\* the next selector is tried, or isVisible throws.  When no selector is
\* left the try block ends and the while condition is tested again.
TrySelector ==
    /\ loop.pc = "for"
    /\ \E vis \in {"visible", "hidden", "throws"} :
         loop' = CASE vis = "visible" ->
                        [loop EXCEPT !.actionButton = TRUE, !.pc = "exit"]
                   [] vis = "throws" -> [loop EXCEPT !.pc = "catch"]
                   [] vis = "hidden" /\ loop.selector < NumSelectors ->
                        [loop EXCEPT !.selector = @ + 1]
                   [] OTHER -> [loop EXCEPT !.pc = "while"]

\* catch (error) { retryCount++; if (retryCount < maxRetries && page) {...} }
Catch ==
    /\ loop.pc = "catch"
    /\ loop' = [loop EXCEPT !.retryCount = @ + 1,
                            !.pc = IF loop.retryCount + 1 < maxRetries
                                     THEN "reload" ELSE "while"]

\* The wait and page.reload() before the next attempt; an error there
\* breaks out of the loop.
Reload ==
    /\ loop.pc = "reload"
    /\ \E ok \in BOOLEAN :
         loop' = [loop EXCEPT !.pc = IF ok THEN "while" ELSE "exit"]

\* What selector discovery leaves alone.
notLoop == <<reqs, store, browserState, calls, proxyVars, cookieVars, verify, trip>>

LoopNext ==
    \/ While /\ UNCHANGED notLoop
    \/ WaitForSelector /\ UNCHANGED notLoop
    \/ TrySelector /\ UNCHANGED notLoop
    \/ Catch /\ UNCHANGED notLoop
    \/ Reload /\ UNCHANGED notLoop

LoopSpec == LoopInit /\ [][LoopNext]_vars

----------------------------------------------------------------------------
\* Like verification: the loop `while (retryCount < maxRetries &&
\* !likeVerified)` of the Twitter like driver and the test of
\* isReactionApplied of the Facebook like driver.  A round reads four signals
\* from the page; `rounds` keeps what each round read.

likeMaxRetries == 3   \* const maxRetries = 3 of the Twitter like driver

Signals == [1..4 -> BOOLEAN]

some_Every(verifications) == \A i \in 1..4 : verifications[i]

\* verifications.some(result => result === true)
some(verifications) == \E i \in 1..4 : verifications[i]

\* hasReactionIndicator || isButtonActive || hasReactionCount || hasReactionEmoji
isReactionApplied(verificationResult) ==
    \/ verificationResult[1]
    \/ verificationResult[2]
    \/ verificationResult[3]
    \/ verificationResult[4]

\* The driver has clicked the like button; hasCount: initialLikeCount is a
\* non-empty string.
VerifyStart(h, hasCount) ==
    [driver |-> h, pc |-> IF h = "tw_like" THEN "while" ELSE "evaluate",
     initialLikeCount |-> hasCount, retryCount |-> 0, likeVerified |-> FALSE,
     rounds |-> << >>, verdict |-> "none", path |-> << >>]

VerifyInit ==
    /\ NoRequests /\ NoCalls /\ NoProxy /\ NoCookies /\ NoLoop /\ NoTrip
    /\ \E h \in {"tw_like", "fb_like"}, hasCount \in BOOLEAN :
          /\ h = "fb_like" => ~hasCount
          /\ verify = VerifyStart(h, hasCount)

\* The driver ends in `out`: what the handler then writes and answers.
Verdict(out) ==
    [verify EXCEPT !.pc = "done", !.verdict = out,
                   !.path = DriverPath(verify.driver, "-", out)]

\* while (retryCount < maxRetries && !likeVerified)
VerifyWhile ==
    /\ verify.pc = "while"
    /\ verify' = [verify EXCEPT !.pc = IF verify.retryCount < likeMaxRetries
                                            /\ ~verify.likeVerified
                                         THEN "round" ELSE "after"]

\* One round: Promise.all of the four checks (the fourth is `false` when
\* there was no initial count), likeVerified, and the retry or the break.  A
\* rejected check or wait is thrown to the handler's catch.
VerifyRound ==
    /\ verify.pc = "round"
    /\ \E ok \in BOOLEAN, verifications \in Signals :
         /\ verifications[4] => verify.initialLikeCount
         /\ ~ok => verifications = [i \in 1..4 |-> FALSE]
         /\ verify' =
               IF ~ok THEN Verdict("throw")
               ELSE IF ~some(verifications) /\ verify.retryCount < likeMaxRetries - 1
                 THEN [verify EXCEPT !.rounds = Append(@, verifications),
                                     !.likeVerified = some(verifications),
                                     !.retryCount = @ + 1,
                                     !.pc = "while"]
               ELSE [verify EXCEPT !.rounds = Append(@, verifications),
                                   !.likeVerified = some(verifications),
                                   !.pc = "after"]

\* if (!likeVerified) throw new Error('Failed to verify like action ...')
VerifyAfter ==
    /\ verify.pc = "after"
    /\ verify' = Verdict(IF verify.likeVerified THEN "ok" ELSE "unverified")

\* Facebook: page.evaluate returns the four signals, and
\* if (!isReactionApplied) { log 'failed'; status 'failed'; throw }
VerifyReaction ==
    /\ verify.pc = "evaluate"
    /\ \E ok \in BOOLEAN, verificationResult \in Signals :
         /\ ~ok => verificationResult = [i \in 1..4 |-> FALSE]
         /\ verify' =
               IF ~ok THEN Verdict("throw")
               ELSE [Verdict(IF isReactionApplied(verificationResult)
                               THEN "ok" ELSE "unverified")
                       EXCEPT !.rounds = <<verificationResult>>]

\* What like verification leaves alone.
notVerify == <<reqs, store, browserState, calls, proxyVars, cookieVars, loop, trip>>

VerifyNext ==
    \/ VerifyWhile /\ UNCHANGED notVerify
    \/ VerifyRound /\ UNCHANGED notVerify
    \/ VerifyAfter /\ UNCHANGED notVerify
    \/ VerifyReaction /\ UNCHANGED notVerify

VerifySpec == VerifyInit /\ [][VerifyNext]_vars

----------------------------------------------------------------------------
\* Stored session state: the cookie jar an add-account handler captures
\* after login, the string it stores in social_accounts.cookies, and what
\* parseCookies makes of that string when a later session is opened.

\* Cookies context.cookies() may return after a login: names without '=',
\* ';' or blanks, values that may hold '=' (base64 padding) and may be empty.
JarNames == {<<"a">>, <<"b">>}
JarValues == UNION {[1..n -> {"a", "="}] : n \in 0..MaxValueLen}
Jars == UNION {[1..n -> {Cookie(nm, v) : nm \in JarNames, v \in JarValues}] : n \in 1..MaxJar}

\* Array.prototype.join for an array of strings.
RECURSIVE join(_, _)
join(pieces, sep) ==
    IF pieces = << >> THEN << >>
    ELSE IF Len(pieces) = 1 THEN pieces[1]
    ELSE pieces[1] \o sep \o join(Tail(pieces), sep)

\* cookies.map(cookie => `${cookie.name}=${cookie.value}`).join("; ")
cookieString(jar) ==
    [kind |-> "text",
     text |-> join([i \in 1..Len(jar) |-> jar[i].name \o <<"=">> \o jar[i].value],
                   <<";", " ">>),
     json |-> [array |-> FALSE, items |-> << >>]]

\* JSON.stringify(cookies): the text that JSON.parse reads as the array of
\* the jar's cookies.
cookiesString(jar) ==
    [kind |-> "json", text |-> << >>, json |-> [array |-> TRUE, items |-> jar]]

NothingStored == [kind |-> "undefined", text |-> << >>, json |-> [array |-> FALSE, items |-> << >>]]

TripInit ==
    /\ NoRequests /\ NoCalls /\ NoProxy /\ NoCookies /\ NoLoop /\ NoVerify
    /\ trip \in [pc : {"captured"}, handler : AddAccountHandlers, jar : Jars,
                 stored : {NothingStored},
                 parsed : {[array |-> FALSE, items |-> << >>]}]

\* Facebook add-account: cookies: cookieString
StoreCookieString ==
    /\ trip.pc = "captured" /\ trip.handler = "fb_add"
    /\ trip' = [trip EXCEPT !.pc = "stored", !.stored = cookieString(trip.jar)]

\* Twitter add-account: cookies: cookiesString
StoreCookiesString ==
    /\ trip.pc = "captured" /\ trip.handler = "tw_add"
    /\ trip' = [trip EXCEPT !.pc = "stored", !.stored = cookiesString(trip.jar)]

\* createStealthSetup(account.cookies, ...): parsedCookies = parseCookies(cookies)
ParseStored ==
    /\ trip.pc = "stored"
    /\ trip' = [trip EXCEPT !.pc = "parsed", !.parsed = parseCookies(trip.stored)]

\* What storing and parsing a jar leaves alone.
notTrip == <<reqs, store, browserState, calls, proxyVars, cookieVars, loop, verify>>

TripNext ==
    \/ StoreCookieString /\ UNCHANGED notTrip
    \/ StoreCookiesString /\ UNCHANGED notTrip
    \/ ParseStored /\ UNCHANGED notTrip

TripSpec == TripInit /\ [][TripNext]_vars

----------------------------------------------------------------------------
\* Properties.

Returned(r) == pc[r] = "done"

\* r inserted a task row for immediate execution.
OneShot(r) == task[r] # 0 /\ tasks[task[r]].schedule_type = "once"

ContextsBy(r) == {c \in 1..Len(contexts) : contexts[c].by = r}
BrowsersBy(r) == {b \in 1..Len(browsers) : browsers[b].by = r}

\* The driver of r ended in a thrown error, a timeout or an explicit failure.
DriverFailed(r) ==
    \/ outcome[r] \in {"throw", "fail", "unverified", "expired"}
    \/ outcome[r] = "notfound" /\ variant[r] # "unfollow"

\* C1: when a handler has returned, exactly one task_logs entry references
\* the one-shot task it created.
C1_OneLogPerTask ==
    \A r \in DOMAIN pc :
        Returned(r) /\ OneShot(r) => Cardinality(LogsOf(task[r])) = 1

\* C2: when a handler has returned, the one-shot task it created is
\* 'completed' or 'failed', never still 'active'.
C2_NoActiveAfterReturn ==
    \A r \in DOMAIN pc :
        Returned(r) /\ OneShot(r) => TaskStatus(task[r]) \in {"completed", "failed"}

\* C3: when a handler has returned, its one-shot task is 'completed' exactly
\* when it has a 'success' log entry and 'failed' exactly when it has a
\* 'failed' one, and it never has both.
C3_StatusAgreesWithLog ==
    \A r \in DOMAIN pc :
        Returned(r) /\ OneShot(r) =>
            /\ TaskStatus(task[r]) = "completed" <=> LogsWith(task[r], "success") # {}
            /\ TaskStatus(task[r]) = "failed" <=> LogsWith(task[r], "failed") # {}
            /\ ~(LogsWith(task[r], "success") # {} /\ LogsWith(task[r], "failed") # {})

\* C4: when a handler execution that was handed a browsing context has
\* returned, that context was closed exactly once.
C4_ContextClosedOnce ==
    \A r \in DOMAIN pc :
        Returned(r) /\ context[r] # 0 => contexts[context[r]].closeCalls = 1

\* C5: no step of a handler execution closes a browser or changes the
\* process-wide browser reference.
C5_SharedBrowserUntouched ==
    [][(\E r \in DOMAIN pc : pc'[r] # pc[r] \/ todo'[r] # todo[r]) =>
          /\ globalBrowser' = globalBrowser
          /\ \A b \in 1..Len(browsers) : browsers'[b] = browsers[b]]_vars

\* C6: in a task handler the task row exists, with status 'active', when the
\* handler is about to open the session, and no browser or context of a task
\* handler exists without the task row of its request.
C6_TaskBeforeSession ==
    \A r \in DOMAIN pc :
        handler[r] \in TaskHandlers =>
            /\ pc[r] = "session" =>
                  task[r] \in 1..Len(tasks) /\ TaskStatus(task[r]) = "active"
            /\ (context[r] # 0 \/ ContextsBy(r) # {} \/ BrowsersBy(r) # {}) =>
                  task[r] \in 1..Len(tasks)

C6_Witness ==
    \E r \in DOMAIN pc :
        /\ handler[r] \in TaskHandlers
        /\ context[r] # 0
        /\ contexts[context[r]].page = "open"
        /\ task[r] \in 1..Len(tasks)

\* C7: when opening the session failed after the task row was created, the
\* handler has written a 'failed' log entry and set the task 'failed' by the
\* time it returns.
C7_SessionFailureRecorded ==
    \A r \in DOMAIN pc :
        Returned(r) /\ outcome[r] = "session_fail" /\ task[r] # 0 =>
            /\ LogsWith(task[r], "failed") # {}
            /\ TaskStatus(task[r]) = "failed"

\* C8: a failed driver is answered with HTTP 500, and a success response for
\* a one-shot task is returned only when the task was set to 'completed'.
C8_ResponseMatchesOutcome ==
    \A r \in DOMAIN pc :
        Returned(r) /\ handler[r] \in TaskHandlers =>
            /\ DriverFailed(r) => resp[r] = "500 error"
            /\ resp[r] \in SuccessResponses /\ OneShot(r) =>
                  TaskStatus(task[r]) = "completed"

\* r created nothing: no task row, no log entry, no browser and no context.
NothingCreated(r) ==
    /\ task[r] = 0
    /\ Len(tasks) = Cardinality({q \in DOMAIN pc : task[q] # 0})
    /\ \A i \in 1..Len(task_logs) : \E q \in DOMAIN pc : task_logs[i].task_id = task[q]
    /\ LogsOf(task[r]) = {}
    /\ context[r] = 0 /\ ContextsBy(r) = {} /\ BrowsersBy(r) = {}

C10_InsertFailure ==
    \A r \in DOMAIN pc :
        outcome[r] = "insert_fail" =>
            /\ Returned(r) /\ resp[r] = "500 error"
            /\ task[r] = 0
            /\ Len(tasks) = Cardinality({q \in DOMAIN pc : task[q] # 0})
            /\ \A i \in 1..Len(task_logs) : \E q \in DOMAIN pc :
                  task[q] # 0 /\ task_logs[i].task_id = task[q]
            /\ context[r] = 0 /\ ContextsBy(r) = {} /\ BrowsersBy(r) = {}

C10_Witness ==
    \E r \in DOMAIN pc :
        outcome[r] = "insert_fail" /\ Returned(r) /\ handler[r] \in TaskHandlers

GlobalBrowsers == {b \in 1..Len(browsers) : browsers[b].kind = "global"}

\* C11: as long as no browser was shut down, callers of initGlobalBrowser,
\* however their calls overlap, have launched at most one browser and all
\* hold the same one.
C11_LaunchedOnce ==
    (\A b \in 1..Len(browsers) : browsers[b].closeCalls = 0) =>
        /\ Cardinality(GlobalBrowsers) <= 1
        /\ \A j, k \in DOMAIN calls :
              calls[j].browser # 0 /\ calls[k].browser # 0 =>
                  calls[j].browser = calls[k].browser

\* C12: for calls made one after the other: cleanup with no browser held
\* changes nothing; a cleanup that found a browser leaves it closed and the
\* reference cleared; close() is called at most once on a launched browser;
\* between calls the reference is null or an open browser, and
\* initGlobalBrowser returns an open browser, never the one shut down.
C12_ShutdownIdempotent ==
    /\ [](/\ \A b \in 1..Len(browsers) : browsers[b].closeCalls <= 1
          /\ (\A k \in DOMAIN calls : Resting(k)) =>
                (globalBrowser # 0 => browsers[globalBrowser].open))
    /\ [][\A k \in DOMAIN calls :
            /\ (Resting(k) /\ calls'[k] # calls[k] /\ calls'[k].op = "cleanup"
                   /\ globalBrowser = 0) =>
                  UNCHANGED <<browsers, globalBrowser, contexts>>
            /\ (calls[k].pc = "closing" /\ calls'[k].pc = "returned") =>
                  globalBrowser' = 0 /\ ~browsers'[calls[k].browser].open
            /\ (calls'[k] # calls[k] /\ calls'[k].value = "browser") =>
                  browsers'[calls'[k].browser].open]_vars

\* A browser was shut down and a later initGlobalBrowser launched another.
C12_Witness ==
    \E k \in DOMAIN calls, b \in GlobalBrowsers :
        /\ browsers[b].closeCalls = 1
        /\ calls[k].op = "initGlobalBrowser" /\ calls[k].value = "browser"
        /\ calls[k].browser = globalBrowser
        /\ globalBrowser > b /\ browsers[globalBrowser].open

\* C13: every context belongs to the process-wide browser, at most one
\* browser was launched, and no browser runs without the reference to it.
C13_OneSharedBrowser ==
    /\ \A c \in 1..Len(contexts) : contexts[c].browser = globalBrowser
    /\ Cardinality({b \in 1..Len(browsers) : browsers[b].open}) <= 1
    /\ \A b \in 1..Len(browsers) : browsers[b].open => b = globalBrowser

Present(x) == x \notin {Null, Undefined, Str(""), Num("0")}

C15_ProxyFailsClosed ==
    proxyConfig # Unset =>
        /\ proxyConfig.t \in {"undefined", "object"}
        /\ (account.proxy_ip = Null \/ account.proxy_port = Null) =>
              proxyConfig = Undefined

\* A Facebook handler resolved an account with an address but no port.
C15_Witness ==
    /\ Platform(proxyRoute) = "facebook"
    /\ account.proxy_ip = Str("10.0.0.5") /\ account.proxy_port = Null
    /\ account.proxy_username = Str("u")
    /\ proxyConfig = Undefined

\* C16: a follow request for a target that is already followed is answered
\* with success without a click, and leaves what a normal success leaves: one
\* log entry, 'success', and the task 'completed'.
C16_AlreadyFollowing ==
    \A r \in DOMAIN pc :
        (/\ Returned(r) /\ handler[r] \in {"tw_follow", "fb_follow"}
         /\ variant[r] = "follow" /\ outcome[r] = "already") =>
            /\ resp[r] = "200 success"
            /\ ~Clicked(handler[r], outcome[r])
            /\ Cardinality(LogsOf(task[r])) = 1
            /\ Cardinality(LogsWith(task[r], "success")) = 1
            /\ TaskStatus(task[r]) = "completed"

\* C17: Twitter add-account does not refuse a body without mfa_code with a
\* generic failure; when the challenge appears and no code was supplied it
\* answers requiresMfa and no social_accounts row was inserted or updated.
C17_MfaGate ==
    \A r \in DOMAIN pc :
        Returned(r) /\ handler[r] = "tw_add" =>
            /\ outcome[r] # "schema_reject"
            /\ outcome[r] = "mfa_required" =>
                  /\ resp[r] = "200 requiresMfa"
                  /\ \A a \in 1..Len(social_accounts) :
                        social_accounts[a].platform = "twitter" =>
                            a \in Users /\ social_accounts[a].status = "active"

\* C19: every handler execution that has ended returned a JSON response.
C19_StructuredResponse ==
    \A r \in DOMAIN pc : Returned(r) => resp[r] \in Responses

\* The blob is no list of cookies: a cookie string with a piece that has no
\* '=', or JSON that is no array of cookies with values.
Malformed(blob) ==
    \/ /\ blob.kind = "text" /\ blob.text # << >>
       /\ \E i \in 1..Len(split(blob.text, ";")) :
             \A j \in 1..Len(split(blob.text, ";")[i]) :
                 split(blob.text, ";")[i][j] # "="
    \/ /\ blob.kind = "json"
       /\ \/ ~blob.json.array
          \/ \E i \in 1..Len(blob.json.items) : ~blob.json.items[i].hasValue

\* C18: whatever the cookie string, a failure to parse or to inject it is
\* caught and restores no cookie, the setup goes on to install the stealth
\* script, and a context that is returned has the script installed; a
\* malformed blob restores nothing.
C18_MalformedCookiesTolerated ==
    /\ stealth.failedAt # "addCookies"
    /\ stealth.caught => stealth.jar = << >>
    /\ (Malformed(cookies) /\ stealth.pc # "cookies") =>
          stealth.caught /\ stealth.jar = << >>
    /\ stealth.pc = "returned" => stealth.script

\* A cookie string whose second piece has no '=' went through the setup.
C18_Witness ==
    /\ cookies.kind = "text" /\ cookies.text = <<"=", "a", ";">>
    /\ stealth.caught /\ stealth.pc = "returned" /\ stealth.script

\* C20: the selector-discovery loop makes at most 3 attempts, and every
\* attempt that ended without a visible button was counted.
C20_LoopBounded ==
    /\ loop.attempts <= maxRetries
    /\ (loop.pc = "while" /\ ~loop.actionButton) => loop.retryCount = loop.attempts

\* The control the driver acts on was not found: the follow, unfollow or like
\* button of Twitter, the Like or reaction button of Facebook.
ControlMissing(r) ==
    \/ handler[r] \in {"tw_follow", "tw_like"} /\ outcome[r] = "notfound"
    \/ handler[r] = "fb_like" /\ outcome[r] = "fail"

\* C21: when the control was not found the task is 'failed', it has exactly
\* one log entry, a 'failed' one, and the response is HTTP 500.
C21_MissingControlFails ==
    \A r \in DOMAIN pc :
        Returned(r) /\ ControlMissing(r) =>
            /\ TaskStatus(task[r]) = "failed"
            /\ Cardinality(LogsOf(task[r])) = 1
            /\ LogsWith(task[r], "success") = {}
            /\ resp[r] = "500 error"

\* A signal was true in one of the rounds the driver read.
Confirmed == \E k \in 1..Len(verify.rounds), i \in 1..4 : verify.rounds[k][i]

Has(path, token) == \E i \in 1..Len(path) : path[i] = token

C23_NoUnconfirmedSuccess ==
    \A r \in DOMAIN pc :
        (/\ Returned(r) /\ OneShot(r)
         /\ outcome[r] \in {"unconfirmed", "unverified"}) =>
            /\ LogsWith(task[r], "failed") # {}
            /\ LogsWith(task[r], "success") = {}
            /\ TaskStatus(task[r]) = "failed"

\* The request of r was turned away before the insert of the task row, or
\* the insert failed.
TurnedAway(r) ==
    outcome[r] \in {"unauth", "invalid", "schema_reject", "noaccount",
                    "premedia_fail", "insert_fail"}

\* r takes a step.
Steps(r) == pc'[r] # pc[r] \/ todo'[r] # todo[r]

\* C24: executions that overlap never share a task row, an execution that
\* got past the insert has inserted exactly one row, and a step of an
\* execution changes no row of tasks but its own and no existing log
\* entry, and adds log entries only for its own task.
C24_FrameEffect ==
    /\ [](/\ \A r, q \in DOMAIN pc : (r # q /\ task[r] # 0) => task[r] # task[q]
          /\ Len(tasks) = Cardinality({r \in DOMAIN pc : task[r] # 0})
          /\ \A r \in DOMAIN pc :
                (Returned(r) /\ handler[r] \in TaskHandlers /\ ~TurnedAway(r)) =>
                    task[r] \in 1..Len(tasks))
    /\ [][\A r \in DOMAIN pc : Steps(r) =>
            /\ Len(tasks') \in {Len(tasks), Len(tasks) + 1}
            /\ Len(tasks') > Len(tasks) => task[r] = 0 /\ task'[r] = Len(tasks')
            /\ \A t \in 1..Len(tasks) : t # task[r] => tasks'[t] = tasks[t]
            /\ \A i \in 1..Len(task_logs) : task_logs'[i] = task_logs[i]
            /\ \A i \in (Len(task_logs) + 1)..Len(task_logs') :
                  task[r] # 0 /\ task_logs'[i].task_id = task[r]]_vars

\* A request timed out and is recorded as failed while its resubmission, for
\* the same user and account and started before the first one returned, has
\* completed its own task.
C24_Witness ==
    \E r, q \in DOMAIN pc :
        /\ r # q /\ session[r] = session[q] /\ accountId[r] = accountId[q]
        /\ outcome[r] = "throw" /\ pc[r] = "run" /\ task[r] # 0 /\ task[q] # 0
        /\ task[r] < task[q]
        /\ TaskStatus(task[r]) = "failed" /\ LogsWith(task[r], "failed") # {}
        /\ TaskStatus(task[q]) = "completed" /\ LogsWith(task[q], "success") # {}
        /\ LogsWith(task[r], "success") = {} /\ LogsWith(task[q], "failed") = {}

\* C25: no step removes a task_logs entry or changes one: the log only grows
\* at its end.
C25_LogAppendOnly ==
    [][/\ Len(task_logs') >= Len(task_logs)
       /\ \A i \in 1..Len(task_logs) : task_logs'[i] = task_logs[i]]_vars

\* Facebook create-post wrote 'success' and, after close() threw, a second
\* entry for the same task; the first one is still there.
C25_Witness ==
    /\ Len(task_logs) = 2
    /\ task_logs[1].result = "success" /\ task_logs[2].result = "failed"
    /\ task_logs[1].task_id = task_logs[2].task_id

\* C26: the status of a task row changes only from 'active', and only to
\* 'completed' or 'failed'.
C26_StatusTerminal ==
    [][\A t \in 1..Len(tasks) :
          tasks'[t].status # tasks[t].status =>
              /\ tasks[t].status = "active"
              /\ tasks'[t].status \in {"completed", "failed"}]_vars

\* The task was set 'completed', closing the context then threw and the
\* handler answered 500: the task is still 'completed'.
C26_Witness ==
    \E r \in DOMAIN pc :
        /\ Returned(r) /\ outcome[r] = "ok" /\ resp[r] = "500 error"
        /\ task[r] # 0
        /\ TaskStatus(task[r]) = "completed"

\* The rows that hold the cookie jar execution r captured.
RowsOf(r) == {a \in 1..Len(social_accounts) : social_accounts[a].cookies = r}

\* The rows of social_accounts the step writes.
Written ==
    {a \in 1..Len(social_accounts') :
        a > Len(social_accounts) \/ social_accounts'[a] # social_accounts[a]}

\* C27: a step of a Twitter add-account execution writes an account row
\* only after its login steps ended at the login check; the row it writes is
\* one row for its email, with the jar it captured, 'active' when the
\* logged-in flag was set and 'pending' when not.  When such an execution
\* has returned, a row for its email holds its jar, or the jar of a later
\* request that updated that row; an execution whose login steps threw has
\* written nothing.
C27_SavedRegardless ==
    /\ [](\A r \in DOMAIN pc :
            Returned(r) /\ handler[r] = "tw_add" =>
                /\ outcome[r] \in {"logged_in", "pending"} =>
                      \E a \in 1..Len(social_accounts) :
                          /\ social_accounts[a].email = accountId[r]
                          /\ social_accounts[a].platform = "twitter"
                          /\ \/ social_accounts[a].cookies = r
                             \/ \E q \in DOMAIN pc :
                                   /\ social_accounts[a].cookies = q
                                   /\ handler[q] = "tw_add" /\ existing[q].id = a
                /\ outcome[r] \notin {"logged_in", "pending"} => RowsOf(r) = {})
    /\ [][\A r \in DOMAIN pc :
            (Steps(r) /\ handler[r] = "tw_add" /\ Written # {}) =>
                /\ outcome[r] \in {"logged_in", "pending"}
                /\ Cardinality(Written) = 1
                /\ \A a \in Written :
                      /\ social_accounts'[a].email = accountId[r]
                      /\ social_accounts'[a].platform = "twitter"
                      /\ social_accounts'[a].cookies = r
                      /\ social_accounts'[a].status =
                            IF outcome[r] = "logged_in" THEN "active" ELSE "pending"]_vars

\* A login that could not be verified left a 'pending' row, and a later
\* request for the same email turned that row 'active' with its own jar.
C27_Witness ==
    \E r, q \in DOMAIN pc :
        /\ r # q /\ handler[r] = "tw_add" /\ handler[q] = "tw_add"
        /\ Returned(r) /\ outcome[r] = "pending" /\ RowsOf(r) = {}
        /\ Returned(q) /\ outcome[q] = "logged_in"
        /\ existing[q].status = "pending"
        /\ \E a \in RowsOf(q) : social_accounts[a].status = "active"

\* C28: a step of a Twitter add-account execution changes no existing row
\* of social_accounts that belongs to a user other than the requester.
C28_OwnRowsOnly ==
    [][\A r \in DOMAIN pc :
          (Steps(r) /\ handler[r] = "tw_add") =>
              \A a \in 1..Len(social_accounts) :
                  social_accounts'[a] # social_accounts[a] =>
                      social_accounts[a].user_id = session[r]]_vars

\* C29: social_accounts never holds two rows with the same platform and
\* email.
C29_OneRowPerEmail ==
    \A a, b \in 1..Len(social_accounts) :
        (/\ social_accounts[a].platform = social_accounts[b].platform
         /\ social_accounts[a].email = social_accounts[b].email) => a = b

\* C30: what parseCookies returns for the string an add-account handler
\* stored is an array with one cookie per cookie of the captured jar, in
\* order, each with the name and the value of the captured one.
C30_RoundTrip ==
    trip.pc = "parsed" =>
        /\ trip.parsed.array
        /\ Len(trip.parsed.items) = Len(trip.jar)
        /\ \A i \in 1..Len(trip.jar) :
              /\ trip.parsed.items[i].name = trip.jar[i].name
              /\ trip.parsed.items[i].hasValue
              /\ trip.parsed.items[i].value = trip.jar[i].value

====
